---- MODULE Spec2Model ----
(***************************************************************************)
(* MediConnect appointment backend (src/app.py, src/db_seed.py).           *)
(*                                                                         *)
(* The store holds four collections (users, doctor_profiles,               *)
(* patient_profiles, appointments).  A document's _id is its position in   *)
(* its collection (ids are fresh and never reused; no handler deletes).    *)
(* Requests are served one at a time: a request is received (req), the     *)
(* handler of its route runs as one step and leaves a response (resp), and *)
(* the response is delivered.  Times are minutes on the UTC clock.         *)
(***************************************************************************)
EXTENDS Integers, Sequences, FiniteSets, TLC

VARIABLES users, doctor_profiles, patient_profiles, appointments,
          email_index, now, req, resp

vars == <<users, doctor_profiles, patient_profiles, appointments,
          email_index, now, req, resp>>

db == <<users, doctor_profiles, patient_profiles, appointments>>

(***************************************************************************)
(* Bounds of the model.                                                    *)
(***************************************************************************)
MaxUsers == 2
MaxAppts == 2
MaxSlot == 3
MaxTick == 1

(***************************************************************************)
(* JSON values of a request body.  A key that is not in the body is        *)
(* Absent; strings that the code inspects character by character (email,   *)
(* password, specialty) are sequences of one-character strings.            *)
(***************************************************************************)
Absent == [k |-> "absent"]
Str(s) == [k |-> "str", v |-> s]
Chars(s) == [k |-> "chars", v |-> s]
Num(n) == [k |-> "num", v |-> n]
\* a well-formed 24-digit hex id string, naming document n
Oid(n) == [k |-> "oid", v |-> n]
\* an ISO-8601 instant: wall-clock minute `local` at UTC offset `off` minutes
Iso(local, off) == [k |-> "iso", local |-> local, off |-> off]

\* Python truthiness of data[field]: a missing key, "", 0 are all "not data[field]"
Falsy(x) ==
    \/ x.k = "absent"
    \/ x.k = "num" /\ x.v = 0
    \/ x.k = "str" /\ x.v = ""
    \/ x.k = "chars" /\ x.v = <<>>

RECURSIVE FirstMissing(_, _)
FirstMissing(data, fields) ==
    IF fields = <<>> THEN "none"
    ELSE IF Falsy(data[Head(fields)]) THEN Head(fields)
    ELSE FirstMissing(data, Tail(fields))

(***************************************************************************)
(* Characters.                                                             *)
(***************************************************************************)
ToLower == ("A" :> "a") @@ ("B" :> "b") @@ ("C" :> "c") @@ ("D" :> "d")
           @@ ("P" :> "p") @@ ("S" :> "s") @@ ("X" :> "x")
UpperChars == DOMAIN ToLower
LowerChars == {"a", "b", "c", "d", "e", "h", "i", "m", "o", "p", "r", "s", "t", "w", "x"}
DigitChars == {"0", "1", "2", "3", "4", "5", "6", "7", "8", "9"}
Letters == UpperChars \cup LowerChars

\* str.lower()
Lower(s) == [i \in 1..Len(s) |-> IF s[i] \in UpperChars THEN ToLower[s[i]] ELSE s[i]]

\* r'^[a-zA-Z0-9._%+-]+@[a-zA-Z0-9.-]+\.[a-zA-Z]{2,}$'
EmailLocalChars == Letters \cup DigitChars \cup {".", "_", "%", "+", "-"}
EmailDomainChars == Letters \cup DigitChars \cup {".", "-"}
validate_email(email) ==
    \E i \in 2..Len(email) : \E j \in (i + 2)..Len(email) :
        /\ \A p \in 1..(i - 1) : email[p] \in EmailLocalChars
        /\ email[i] = "@"
        /\ \A p \in (i + 1)..(j - 1) : email[p] \in EmailDomainChars
        /\ email[j] = "."
        /\ Len(email) - j >= 2
        /\ \A p \in (j + 1)..Len(email) : email[p] \in Letters

PasswordSpecials == {"@", "$", "!", "%", "*", "?", "&"}
validate_password(password) ==
    /\ Len(password) >= 8
    /\ \E p \in 1..Len(password) : password[p] \in UpperChars
    /\ \E p \in 1..Len(password) : password[p] \in LowerChars
    /\ \E p \in 1..Len(password) : password[p] \in DigitChars
    /\ \E p \in 1..Len(password) : password[p] \in PasswordSpecials

\* werkzeug: a hash is checked by hashing the candidate the same way
generate_password_hash(password) == <<"pbkdf2", password>>
check_password_hash(hash, password) == hash = generate_password_hash(password)

(***************************************************************************)
(* Number conversions of register: float(x), int(x).  A number converts to *)
(* itself, a numeric string to its value, anything else raises.            *)
(***************************************************************************)
NumeralValue == ("0" :> 0) @@ ("1" :> 1) @@ ("2" :> 2) @@ ("3" :> 3) @@ ("4" :> 4)
                @@ ("50" :> 50) @@ ("51" :> 51) @@ ("100" :> 100) @@ ("120" :> 120)
Raises == [k |-> "raise"]
ToNumber(x, default) ==
    IF x.k = "absent" THEN Num(default)
    ELSE IF x.k = "num" THEN x
    ELSE IF x.k = "str" /\ x.v \in DOMAIN NumeralValue THEN Num(NumeralValue[x.v])
    ELSE Raises

(***************************************************************************)
(* Store queries.                                                          *)
(***************************************************************************)
Ids(coll) == 1..Len(coll)

\* find_one: the first document in natural order that matches, 0 if none
FirstId(S) == IF S = {} THEN 0 ELSE CHOOSE i \in S : \A j \in S : i <= j

FindUserByEmail(email) == FirstId({i \in Ids(users) : users[i].email = email})

NoReq == [op |-> "none"]
NoResp == [status |-> 0]
Response(status, message) == [status |-> status, message |-> message]

(***************************************************************************)
(* POST /api/auth/register                                                 *)
(***************************************************************************)
RegisterRequired == <<"email", "password", "user_type", "first_name", "last_name">>
DefaultFee == 150

\* the outcome of register on body data: the response and the three collections
RegisterOutcome(data) ==
    LET same(r) == [resp |-> r, users |-> users,
                    doctor_profiles |-> doctor_profiles,
                    patient_profiles |-> patient_profiles]
        missing == FirstMissing(data, RegisterRequired)
        user_doc == [email |-> Lower(data.email.v),
                     password_hash |-> generate_password_hash(data.password.v),
                     role |-> data.user_type.v,
                     is_active |-> TRUE,
                     last_login |-> -1]
        user_id == Len(users) + 1
        fee == ToNumber(data.consultation_fee, DefaultFee)
        years == ToNumber(data.years_experience, 0)
    IN  IF missing # "none" THEN same(Response(400, "Missing required field"))
        ELSE IF ~validate_email(data.email.v) THEN same(Response(400, "Invalid email format"))
        ELSE IF ~validate_password(data.password.v) THEN same(Response(400, "Weak password"))
        ELSE IF FindUserByEmail(data.email.v) # 0 THEN same(Response(409, "Email already registered"))
        ELSE IF data.user_type.v \notin {"patient", "doctor"} THEN same(Response(400, "Invalid user type"))
        \* users.insert_one under the unique index on email raises DuplicateKeyError
        ELSE IF email_index /\ FindUserByEmail(user_doc.email) # 0
             THEN same(Response(500, "Registration failed"))
        ELSE IF data.user_type.v = "doctor"
             THEN IF fee = Raises \/ years = Raises
                  THEN [same(Response(500, "Registration failed"))
                            EXCEPT !.users = Append(users, user_doc)]
                  ELSE [resp |-> Response(201, "Registration successful"),
                        users |-> Append(users, user_doc),
                        doctor_profiles |-> Append(doctor_profiles,
                            [user_id |-> user_id,
                             specialty |-> IF data.specialty.k = "absent" THEN <<>>
                                           ELSE data.specialty.v,
                             consultation_fee |-> fee.v,
                             years_experience |-> years.v]),
                        patient_profiles |-> patient_profiles]
        ELSE [resp |-> Response(201, "Registration successful"),
              users |-> Append(users, user_doc),
              doctor_profiles |-> doctor_profiles,
              patient_profiles |-> Append(patient_profiles, [user_id |-> user_id])]

register ==
    /\ req.op = "register" /\ resp = NoResp
    /\ LET out == RegisterOutcome(req.data)
       IN  /\ resp' = out.resp
           /\ users' = out.users
           /\ doctor_profiles' = out.doctor_profiles
           /\ patient_profiles' = out.patient_profiles
    /\ UNCHANGED <<appointments, email_index, now, req>>

(***************************************************************************)
(* POST /api/auth/login                                                    *)
(***************************************************************************)
login ==
    /\ req.op = "login" /\ resp = NoResp
    /\ LET data == req.data
           uid == IF Falsy(data.email) THEN 0 ELSE FindUserByEmail(Lower(data.email.v))
       IN  IF Falsy(data.email) \/ Falsy(data.password)
           THEN resp' = Response(400, "Email and password required") /\ users' = users
           ELSE IF uid = 0 \/ ~check_password_hash(users[uid].password_hash, data.password.v)
           THEN resp' = Response(401, "Invalid email or password") /\ users' = users
           ELSE IF ~users[uid].is_active
           THEN resp' = Response(403, "Account is deactivated") /\ users' = users
           ELSE /\ resp' = [status |-> 200, message |-> "ok", access_token |-> uid]
                /\ users' = [users EXCEPT ![uid].last_login = now]
    /\ UNCHANGED <<doctor_profiles, patient_profiles, appointments, email_index, now, req>>

(***************************************************************************)
(* GET /api/appointments/doctors                                           *)
(***************************************************************************)
MaxLimit == 50

\* '$regex' with '$options': 'i' on a plain pattern: a case-insensitive substring test
ContainsIgnoreCase(text, pattern) ==
    \E k \in 0..(Len(text) - Len(pattern)) :
        \A p \in 1..Len(pattern) : Lower(text)[k + p] = Lower(pattern)[p]

\* '$match' role/is_active, '$lookup' doctor_profiles, '$unwind', '$match' specialty,
\* '$project': the joined documents of users i..Len(users), in natural order
RECURSIVE JoinedDoctors(_, _)
JoinedDoctors(i, specialty) ==
    IF i > Len(users) THEN <<>>
    ELSE LET OfUser(p) == /\ p.user_id = i
                          /\ Falsy(specialty) \/ ContainsIgnoreCase(p.specialty, specialty.v)
             profiles == SelectSeq(doctor_profiles, OfUser)
             docs == [n \in 1..Len(profiles) |->
                         [id |-> i,
                          specialty |-> profiles[n].specialty,
                          consultation_fee |-> profiles[n].consultation_fee,
                          years_experience |-> profiles[n].years_experience]]
         IN  (IF users[i].role = "doctor" /\ users[i].is_active THEN docs ELSE <<>>)
             \o JoinedDoctors(i + 1, specialty)

\* '$skip', '$limit'
SkipLimit(docs, skip, limit) ==
    SubSeq(docs, skip + 1, IF skip + limit < Len(docs) THEN skip + limit ELSE Len(docs))

\* the page count as a floor plus one: one page too many when limit divides the total
TotalPagesFloorPlusOne(total_doctors, limit) == total_doctors \div limit + 1

TotalPages(total_doctors, limit) == (total_doctors + limit - 1) \div limit

ListOutcome(args) ==
    LET page == ToNumber(args.page, 1)
        limit == ToNumber(args.limit, 10)
        filtered == JoinedDoctors(1, args.specialty)
        total_doctors == Len(filtered)
        total_pages == TotalPages(total_doctors, limit.v)
    IN  IF page = Raises \/ limit = Raises
        THEN Response(400, "Invalid page or limit parameter")
        ELSE IF page.v < 1 \/ limit.v < 1 \/ limit.v > MaxLimit
        THEN Response(400, "Invalid pagination parameters")
        ELSE [status |-> 200,
              message |-> "ok",
              doctors |-> SkipLimit(filtered, (page.v - 1) * limit.v, limit.v),
              current_page |-> page.v,
              total_pages |-> total_pages,
              total_doctors |-> total_doctors,
              has_next |-> page.v < total_pages]

get_available_doctors ==
    /\ req.op = "list" /\ resp = NoResp
    /\ resp' = ListOutcome(req.args)
    /\ UNCHANGED <<db, email_index, now, req>>

(***************************************************************************)
(* POST /api/appointments, behind role_required('patient')                 *)
(***************************************************************************)
\* role_required without the role comparison: any existing account passes
role_required_any_role(required_role, identity) ==
    IF identity = 0 THEN 401
    ELSE IF identity \notin 1..Len(users) THEN 404
    ELSE 0

\* role_required: 0 lets the wrapped handler run, else the status it answers.
\* identity 0 stands for a request without a valid token (jwt_required)
role_required(required_role, identity) ==
    IF identity = 0 THEN 401
    ELSE IF identity \notin Ids(users) THEN 404
    ELSE IF users[identity].role # required_role THEN 403
    ELSE 0

BookRequired == <<"doctor_id", "appointment_date", "duration", "consultation_type">>
Durations == {15, 30, 45, 60}
ConsultationTypes == {"video", "audio", "chat"}
InactiveStatuses == {"cancelled", "no_show"}

\* the '$or' without its third clause: an appointment inside the proposal is missed
ConflictClausesNoContained(a, appointment_date, end_time) ==
    \/ a.appointment_date <= appointment_date /\ a.end_time > appointment_date
    \/ a.appointment_date < end_time /\ a.end_time >= end_time

\* the '$or' with every comparison strict: an appointment of the same slot is missed
ConflictClausesStrict(a, appointment_date, end_time) ==
    \/ a.appointment_date < appointment_date /\ a.end_time > appointment_date
    \/ a.appointment_date < end_time /\ a.end_time > end_time
    \/ a.appointment_date > appointment_date /\ a.appointment_date < end_time

\* the '$or' of the conflict query.  Its third clause is a dict literal with the key
\* 'appointment_date' twice, so only the later value, {'$lt': end_time}, is sent
ConflictClauses(a, appointment_date, end_time) ==
    \/ a.appointment_date <= appointment_date /\ a.end_time > appointment_date
    \/ a.appointment_date < end_time /\ a.end_time >= end_time
    \/ a.appointment_date < end_time

\* appointments.find_one(...) is not None
HasConflict(appts, doctor_id, appointment_date, end_time) ==
    \E i \in Ids(appts) :
        /\ appts[i].doctor_id = doctor_id
        /\ appts[i].status \notin InactiveStatuses
        /\ ConflictClauses(appts[i], appointment_date, end_time)

\* datetime.fromisoformat(...).utctimetuple(): the UTC wall clock of the instant
ToUtc(date) == date.local - date.off

FindDoctorProfile(doctor_id) ==
    FirstId({i \in Ids(doctor_profiles) : doctor_profiles[i].user_id = doctor_id})

ActiveDoctor(doctor_id) ==
    /\ doctor_id \in Ids(users)
    /\ users[doctor_id].role = "doctor"
    /\ users[doctor_id].is_active

\* the checks with '<' for '<=' in the future test: a start equal to now passes
BookValidationNowAllowed(data) ==
    IF \E f \in {"doctor_id", "appointment_date", "duration", "consultation_type"} :
           Falsy(data[f])
        THEN Response(400, "Missing required field")
    ELSE IF data.doctor_id.k # "oid"
        THEN Response(400, "Invalid doctor ID format")
    ELSE IF ~(/\ data.doctor_id.v \in 1..Len(users)
              /\ users[data.doctor_id.v].role = "doctor"
              /\ users[data.doctor_id.v].is_active)
        THEN Response(404, "Doctor not found or inactive")
    ELSE IF data.appointment_date.k # "iso"
        THEN Response(400, "Invalid appointment date format")
    ELSE IF data.appointment_date.local - data.appointment_date.off < now
        THEN Response(400, "Appointment must be scheduled for future date")
    ELSE IF ~(data.duration.k = "num" /\ data.duration.v \in {15, 30, 45, 60})
        THEN Response(400, "Invalid duration")
    ELSE IF ~(data.consultation_type.k = "str"
              /\ data.consultation_type.v \in {"video", "audio", "chat"})
        THEN Response(400, "Invalid consultation type")
    ELSE NoResp

\* the checks with the date parsed and tested before the doctor is looked up
BookValidationDateFirst(data) ==
    IF \E f \in {"doctor_id", "appointment_date", "duration", "consultation_type"} :
           Falsy(data[f])
        THEN Response(400, "Missing required field")
    ELSE IF data.doctor_id.k # "oid"
        THEN Response(400, "Invalid doctor ID format")
    ELSE IF data.appointment_date.k # "iso"
        THEN Response(400, "Invalid appointment date format")
    ELSE IF data.appointment_date.local - data.appointment_date.off <= now
        THEN Response(400, "Appointment must be scheduled for future date")
    ELSE IF ~(/\ data.doctor_id.v \in 1..Len(users)
              /\ users[data.doctor_id.v].role = "doctor"
              /\ users[data.doctor_id.v].is_active)
        THEN Response(404, "Doctor not found or inactive")
    ELSE IF ~(data.duration.k = "num" /\ data.duration.v \in {15, 30, 45, 60})
        THEN Response(400, "Invalid duration")
    ELSE IF ~(data.consultation_type.k = "str"
              /\ data.consultation_type.v \in {"video", "audio", "chat"})
        THEN Response(400, "Invalid consultation type")
    ELSE NoResp

\* the checks of the handler body before the conflict query, in the order of the
\* code: the response of the first one that fails, NoResp when all pass
BookValidation(data) ==
    IF FirstMissing(data, BookRequired) # "none"
        THEN Response(400, "Missing required field")
    ELSE IF data.doctor_id.k # "oid"
        THEN Response(400, "Invalid doctor ID format")
    ELSE IF ~ActiveDoctor(data.doctor_id.v)
        THEN Response(404, "Doctor not found or inactive")
    ELSE IF data.appointment_date.k # "iso"
        THEN Response(400, "Invalid appointment date format")
    ELSE IF ToUtc(data.appointment_date) <= now
        THEN Response(400, "Appointment must be scheduled for future date")
    ELSE IF ~(data.duration.k = "num" /\ data.duration.v \in Durations)
        THEN Response(400, "Invalid duration")
    ELSE IF ~(data.consultation_type.k = "str"
              /\ data.consultation_type.v \in ConsultationTypes)
        THEN Response(400, "Invalid consultation type")
    ELSE NoResp

\* the appointment document with the fee taken as the default, whatever the profile says
AppointmentDocDefaultFee(user_id, data) ==
    LET doctor_id == data.doctor_id.v
        appointment_date == ToUtc(data.appointment_date)
    IN  [patient_id |-> user_id,
         doctor_id |-> doctor_id,
         appointment_date |-> appointment_date,
         end_time |-> appointment_date + data.duration.v,
         duration |-> data.duration.v,
         consultation_type |-> data.consultation_type.v,
         status |-> "confirmed",
         consultation_fee |-> DefaultFee,
         created_at |-> now]

AppointmentDoc(user_id, data) ==
    LET doctor_id == data.doctor_id.v
        appointment_date == ToUtc(data.appointment_date)
        profile == FindDoctorProfile(doctor_id)
    IN  [patient_id |-> user_id,
         doctor_id |-> doctor_id,
         appointment_date |-> appointment_date,
         end_time |-> appointment_date + data.duration.v,
         duration |-> data.duration.v,
         consultation_type |-> data.consultation_type.v,
         status |-> "confirmed",
         consultation_fee |-> IF profile # 0
                              THEN doctor_profiles[profile].consultation_fee
                              ELSE DefaultFee,
         created_at |-> now]

\* the handler body with the insert moved before the conflict query
BookOutcomeInsertFirst(user_id, data) ==
    LET invalid == BookValidation(data)
        doc == AppointmentDoc(user_id, data)
    IN  IF invalid # NoResp
        THEN [resp |-> invalid, appointments |-> appointments]
        ELSE IF HasConflict(appointments, doc.doctor_id, doc.appointment_date, doc.end_time)
        THEN [resp |-> Response(409, "Time slot no longer available"),
              appointments |-> Append(appointments, doc)]
        ELSE [resp |-> [status |-> 201,
                        message |-> "Appointment booked successfully",
                        id |-> Len(appointments) + 1],
              appointments |-> Append(appointments, doc)]

\* the outcome of the handler body: the response and the appointments collection
BookOutcome(user_id, data) ==
    LET invalid == BookValidation(data)
        doc == AppointmentDoc(user_id, data)
    IN  IF invalid # NoResp
        THEN [resp |-> invalid, appointments |-> appointments]
        ELSE IF HasConflict(appointments, doc.doctor_id, doc.appointment_date, doc.end_time)
        THEN [resp |-> Response(409, "Time slot no longer available"),
              appointments |-> appointments]
        ELSE [resp |-> [status |-> 201,
                        message |-> "Appointment booked successfully",
                        id |-> Len(appointments) + 1],
              appointments |-> Append(appointments, doc)]

book_appointment ==
    /\ req.op = "book" /\ resp = NoResp
    /\ LET gate == role_required("patient", req.identity)
           out == BookOutcome(req.identity, req.data)
       IN  IF gate # 0
           THEN resp' = Response(gate, "role_required") /\ appointments' = appointments
           ELSE resp' = out.resp /\ appointments' = out.appointments
    /\ UNCHANGED <<users, doctor_profiles, patient_profiles, email_index, now, req>>

(***************************************************************************)
(* The environment: requests arrive, responses leave, the clock advances.  *)
(***************************************************************************)
\* the clock and the offered start times move on the grid of the shortest duration
SlotMinutes == CHOOSE d \in Durations : \A e \in Durations : d <= e
SlotTimes == {SlotMinutes * n : n \in 0..MaxSlot}

GoodPassword == <<"P", "a", "s", "s", "w", "0", "r", "d", "!">>
EmailA == <<"a", "@", "x", ".", "c", "o">>
EmailUpperA == <<"A", "@", "x", ".", "c", "o">>
EmailB == <<"b", "@", "x", ".", "c", "o">>

RegisterBody(email, password, user_type, fee, years) ==
    [email |-> email, password |-> password, user_type |-> user_type,
     first_name |-> Str("Ann"), last_name |-> Str("Lee"),
     specialty |-> Absent, consultation_fee |-> fee, years_experience |-> years]

\* the registrations that populate the store for the booking requests
SetupRegistrations ==
    {[op |-> "register", data |-> RegisterBody(Chars(e), Chars(GoodPassword), Str(t), f, Absent)] :
        e \in {EmailA, EmailB}, t \in {"patient", "doctor"}, f \in {Absent}}
    \cup
    {[op |-> "register",
      data |-> RegisterBody(Chars(EmailB), Chars(GoodPassword), Str("doctor"), Str("100"), Absent)]}

BookRequest(c, d, t, n, y) ==
    [op |-> "book", identity |-> c,
     data |-> [doctor_id |-> d, appointment_date |-> t, duration |-> n,
               consultation_type |-> y]]

\* bookings of every caller, account, start and duration, well-formed in each field
WellFormedBookings ==
    {BookRequest(c, Oid(d), Iso(m, 0), Num(n), Str("video")) :
        c \in 0..MaxUsers, d \in 1..MaxUsers, m \in SlotTimes, n \in Durations}

\* bookings with any combination of a missing, malformed or out-of-range field
FaultyBookings ==
    {BookRequest(c, d, t, n, y) :
        c \in 1..MaxUsers,
        d \in {Absent, Str("zz"), Oid(1), Oid(2)},
        t \in {Str("tomorrow"), Iso(0, 0), Iso(60, 30)},
        n \in {Num(20), Num(15)},
        y \in {Str("fax"), Str("video")}}

BookRequests == WellFormedBookings \cup FaultyBookings

ListRequests ==
    {[op |-> "list", args |-> [specialty |-> Absent, location |-> Absent,
                               page |-> p, limit |-> l]] :
        p \in {Absent, Str("2")},
        l \in {Str("1"), Str("51")}}

Requests == SetupRegistrations \cup ListRequests \cup BookRequests

Receive(requests) ==
    /\ req = NoReq
    /\ \E r \in requests :
        /\ r.op = "register" => Len(users) < MaxUsers
        /\ r.op = "book" => Len(appointments) < MaxAppts
        /\ req' = r
    /\ UNCHANGED <<db, email_index, now, resp>>

Deliver ==
    /\ resp # NoResp
    /\ req' = NoReq
    /\ resp' = NoResp
    /\ UNCHANGED <<db, email_index, now>>

Tick ==
    /\ now < SlotMinutes * MaxTick
    /\ now' = now + SlotMinutes
    /\ UNCHANGED <<db, email_index, req, resp>>

\* a fresh store; the unique index on users.email exists once db_seed.py has run
Init ==
    /\ users = <<>>
    /\ doctor_profiles = <<>>
    /\ patient_profiles = <<>>
    /\ appointments = <<>>
    /\ email_index \in BOOLEAN
    /\ now = 0
    /\ req = NoReq
    /\ resp = NoResp

Next ==
    \/ Receive(Requests)
    \/ register
    \/ get_available_doctors
    \/ book_appointment
    \/ Deliver
    \/ Tick

Spec == Init /\ [][Next]_vars

(***************************************************************************)
(* Accounts: registrations of every shape, and logins.                     *)
(***************************************************************************)
AuthRequests ==
    {[op |-> "register", data |-> RegisterBody(e, p, Str(t), f, y)] :
        e \in {Absent, Chars(EmailA), Chars(EmailUpperA), Chars(EmailB),
               Chars(<<"a", "@", "x">>)},
        p \in {Chars(GoodPassword), Chars(<<"p", "a", "s", "s", "w", "o", "r", "d">>),
               Chars(<<"S", "h", "o", "r", "t", "1", "!">>)},
        t \in {"patient", "doctor", "admin"},
        f \in {Absent, Num(120), Str("abc")},
        y \in {Absent, Str("ten")}}
    \cup
    {[op |-> "login", data |-> [email |-> e, password |-> p]] :
        e \in {Absent, Chars(EmailA), Chars(EmailUpperA), Chars(EmailB)},
        p \in {Chars(GoodPassword), Chars(<<"p", "w">>)}}

NextAuth ==
    \/ Receive(AuthRequests)
    \/ register
    \/ login
    \/ Deliver

SpecAuth == Init /\ [][NextAuth]_vars

(***************************************************************************)
(* The doctor directory: a populated store and listing requests.           *)
(***************************************************************************)
MaxDoctors == 4

Cardiology == <<"C", "a", "r", "d">>
Dermatology == <<"D", "e", "r", "m">>
Digit == <<"0", "1", "2", "3", "4", "5", "6", "7", "8", "9">>

\* the accounts that n registrations leave: kinds[i] is a patient, a doctor of one of
\* two specialties, or a doctor whose profile was not written
DirectoryKinds == {"patient", "cardiology", "dermatology", "unprofiled"}
DirectoryUser(i, kind) ==
    [email |-> <<"u", Digit[i + 1], "@", "x", ".", "c", "o">>,
     password_hash |-> generate_password_hash(GoodPassword),
     role |-> IF kind = "patient" THEN "patient" ELSE "doctor",
     is_active |-> TRUE,
     last_login |-> -1]

RECURSIVE DirectoryProfiles(_, _)
DirectoryProfiles(kinds, i) ==
    IF i > Len(kinds) THEN <<>>
    ELSE (IF kinds[i] \in {"cardiology", "dermatology"}
          THEN <<[user_id |-> i,
                  specialty |-> IF kinds[i] = "cardiology" THEN Cardiology ELSE Dermatology,
                  consultation_fee |-> DefaultFee,
                  years_experience |-> 0]>>
          ELSE <<>>) \o DirectoryProfiles(kinds, i + 1)

RECURSIVE DirectoryPatients(_, _)
DirectoryPatients(kinds, i) ==
    IF i > Len(kinds) THEN <<>>
    ELSE (IF kinds[i] = "patient" THEN <<[user_id |-> i]>> ELSE <<>>)
         \o DirectoryPatients(kinds, i + 1)

InitList ==
    /\ \E n \in 0..MaxDoctors : \E kinds \in [1..n -> DirectoryKinds] :
        /\ users = [i \in 1..n |-> DirectoryUser(i, kinds[i])]
        /\ doctor_profiles = DirectoryProfiles(kinds, 1)
        /\ patient_profiles = DirectoryPatients(kinds, 1)
    /\ appointments = <<>>
    /\ email_index \in BOOLEAN
    /\ now = 0
    /\ req = NoReq
    /\ resp = NoResp

DirectoryRequests ==
    {[op |-> "list", args |-> [specialty |-> s, location |-> Absent,
                               page |-> p, limit |-> l]] :
        s \in {Absent, Chars(<<"c", "A">>)},
        p \in {Absent, Str("0"), Str("1"), Str("2"), Str("3"), Str("4"), Str("x")},
        l \in {Absent, Str("0"), Str("1"), Str("2"), Str("3"), Str("50"), Str("51")}}

NextList ==
    \/ Receive(DirectoryRequests)
    \/ get_available_doctors
    \/ Deliver

SpecList == InitList /\ [][NextList]_vars

(***************************************************************************)
(* Properties of booking.                                                  *)
(***************************************************************************)
\* the step in which book_appointment (with its role gate) answers the request
BookStep == req.op = "book" /\ resp = NoResp /\ resp' # NoResp

Overlap(a1, a2, b1, b2) == a1 < b2 /\ b1 < a2
Counts(a) == a.status \notin {"cancelled", "no_show"}

\* a booking request that passes the role gate and every check but the conflict check
ValidBooking(r) ==
    /\ r.identity \in Ids(users) /\ users[r.identity].role = "patient"
    /\ r.data.doctor_id.k = "oid"
    /\ r.data.doctor_id.v \in Ids(users)
    /\ users[r.data.doctor_id.v].role = "doctor"
    /\ users[r.data.doctor_id.v].is_active
    /\ r.data.appointment_date.k = "iso"
    /\ r.data.appointment_date.local - r.data.appointment_date.off > now
    /\ r.data.duration.k = "num" /\ r.data.duration.v \in {15, 30, 45, 60}
    /\ r.data.consultation_type.k = "str"
    /\ r.data.consultation_type.v \in {"video", "audio", "chat"}

StartOf(r) == r.data.appointment_date.local - r.data.appointment_date.off
EndOf(r) == StartOf(r) + r.data.duration.v

\* the appointments of the doctor of request r that count for conflicts
DoctorAppts(r) ==
    {i \in Ids(appointments) :
        appointments[i].doctor_id = r.data.doctor_id.v /\ Counts(appointments[i])}

\* C1: with requests served one at a time, no two appointments of one doctor whose
\* status is neither cancelled nor no_show have overlapping intervals
\* [appointment_date, end_time)
C1_NoOverlap ==
    \A i, j \in Ids(appointments) :
        (/\ i < j
         /\ appointments[i].doctor_id = appointments[j].doctor_id
         /\ Counts(appointments[i]) /\ Counts(appointments[j]))
        => ~Overlap(appointments[i].appointment_date, appointments[i].end_time,
                    appointments[j].appointment_date, appointments[j].end_time)

C1_Witness ==
    \E i, j \in Ids(appointments) :
        /\ i < j
        /\ appointments[i].doctor_id = appointments[j].doctor_id
        /\ Counts(appointments[i]) /\ Counts(appointments[j])

\* C2: the conflict check answers "conflict" (409) exactly when a stored appointment
\* of the same doctor, neither cancelled nor no_show, has
\* appointment_date < end and end_time > start
C2_ConflictIffOverlap ==
    [][(BookStep /\ ValidBooking(req))
        => (resp'.status = 409 <=>
               \E i \in DoctorAppts(req) :
                   /\ appointments[i].appointment_date < EndOf(req)
                   /\ appointments[i].end_time > StartOf(req))]_vars

\* C3: back-to-back bookings are accepted in either order: when the doctor's only
\* counting appointment ends where the valid request starts, or starts where it ends,
\* the request is accepted
C3_BackToBackAccepted ==
    [][(/\ BookStep /\ ValidBooking(req)
        /\ \E i \in DoctorAppts(req) :
              /\ DoctorAppts(req) = {i}
              /\ \/ appointments[i].end_time = StartOf(req)
                 \/ appointments[i].appointment_date = EndOf(req))
        => resp'.status = 201]_vars

\* the confirmed appointments of the doctor, start and duration of request r
SameSlot(r) ==
    {i \in Ids(appointments) :
        /\ appointments[i].doctor_id = r.data.doctor_id.v
        /\ appointments[i].appointment_date = StartOf(r)
        /\ appointments[i].duration = r.data.duration.v
        /\ appointments[i].status = "confirmed"}

\* C4: a valid request for a doctor, start and duration that an earlier request has
\* booked (a confirmed appointment) is answered 409 and persists nothing, so exactly
\* one appointment of that slot exists afterwards
C4_SecondBookingRejected ==
    [][(BookStep /\ ValidBooking(req) /\ SameSlot(req) # {})
        => /\ resp'.status = 409
           /\ appointments' = appointments
           /\ Cardinality(SameSlot(req)) = 1]_vars

C4_Witness ==
    /\ req.op = "book" /\ resp # NoResp /\ resp.status = 409
    /\ SameSlot(req) # {}

\* C5: a booking request appends exactly one appointment when it succeeds (201) and
\* writes nothing otherwise; it never changes an existing appointment, account or
\* profile
C5_BookingWrites ==
    [][BookStep
        => /\ users' = users
           /\ doctor_profiles' = doctor_profiles
           /\ patient_profiles' = patient_profiles
           /\ IF resp'.status = 201
              THEN /\ Len(appointments') = Len(appointments) + 1
                   /\ \A i \in Ids(appointments) : appointments'[i] = appointments[i]
              ELSE appointments' = appointments]_vars

C5_Witness ==
    /\ req.op = "book" /\ resp # NoResp /\ resp.status = 201
    /\ Len(appointments) = 2

\* the request names a start time that is not strictly after the current UTC time
PastStart(r) == r.data.appointment_date.k = "iso" /\ StartOf(r) <= now
ByPatient(r) == r.identity \in Ids(users) /\ users[r.identity].role = "patient"

\* C6 as claimed: a patient's booking request whose start is not strictly in the
\* future is answered 400 whatever its other fields, and nothing is persisted
C6_PastStartIs400 ==
    [][(BookStep /\ ByPatient(req) /\ PastStart(req))
        => resp'.status = 400 /\ appointments' = appointments]_vars

\* C6 amended: such a request persists nothing and is answered 400, except that a
\* well-formed doctor id that names no active doctor account is answered 404
C6_PastStartRejected ==
    [][(BookStep /\ ByPatient(req) /\ PastStart(req))
        => /\ appointments' = appointments
           /\ resp'.status =
                 IF /\ ~\E f \in {"doctor_id", "duration", "consultation_type"} :
                          Falsy(req.data[f])
                    /\ req.data.doctor_id.k = "oid"
                    /\ ~(/\ req.data.doctor_id.v \in Ids(users)
                         /\ users[req.data.doctor_id.v].role = "doctor"
                         /\ users[req.data.doctor_id.v].is_active)
                 THEN 404 ELSE 400]_vars

C6_Witness ==
    /\ req.op = "book" /\ resp # NoResp
    /\ ByPatient(req) /\ PastStart(req)
    /\ resp.status = 400
    /\ resp.message = "Appointment must be scheduled for future date"

\* every stored appointment's patient_id names a patient account
C7_PatientRefs ==
    \A i \in Ids(appointments) :
        /\ appointments[i].patient_id \in Ids(users)
        /\ users[appointments[i].patient_id].role = "patient"

\* C7: the role gate answers 404 for a caller without an account and 403 for an
\* account that is not a patient, and then nothing is written; every stored
\* appointment's patient_id names a patient account
C7_RoleGate ==
    /\ []C7_PatientRefs
    /\ [][BookStep
           => /\ (req.identity # 0 /\ req.identity \notin Ids(users))
                    => resp'.status = 404 /\ db' = db
              /\ (req.identity \in Ids(users) /\ users[req.identity].role # "patient")
                    => resp'.status = 403 /\ db' = db]_vars

C7_Witness ==
    /\ req.op = "book" /\ resp # NoResp /\ resp.status = 403
    /\ users[req.identity].role = "doctor"
    /\ \E i \in Ids(users) : users[i].role = "patient"

(***************************************************************************)
(* Properties of the doctor directory.                                     *)
(***************************************************************************)
ArgOr(x, default) == IF x.k = "absent" THEN default ELSE NumeralValue[x.v]
Numeric(x) == x.k = "absent" \/ x.v \in DOMAIN NumeralValue

\* the accounts a listing with the specialty filter of request r is about
Listed(r) ==
    {i \in Ids(users) :
        /\ users[i].role = "doctor" /\ users[i].is_active
        /\ \E p \in Ids(doctor_profiles) :
              /\ doctor_profiles[p].user_id = i
              /\ Falsy(r.args.specialty)
                    \/ ContainsIgnoreCase(doctor_profiles[p].specialty, r.args.specialty.v)}

Minimum(a, b) == IF a < b THEN a ELSE b
Maximum(a, b) == IF a < b THEN b ELSE a

\* C8: for page >= 1 and 1 <= limit <= 50 the listing answers with
\* total_doctors = the size of the filtered set, total_pages = its ceiling quotient by
\* limit, has_next exactly when page < total_pages, and the filtered entries at
\* positions (page-1)*limit+1 .. (page-1)*limit+limit, in order
C8_Pagination ==
    (/\ req.op = "list" /\ resp # NoResp
     /\ Numeric(req.args.page) /\ Numeric(req.args.limit)
     /\ ArgOr(req.args.page, 1) >= 1
     /\ ArgOr(req.args.limit, 10) >= 1 /\ ArgOr(req.args.limit, 10) <= 50)
    => LET page == ArgOr(req.args.page, 1)
           limit == ArgOr(req.args.limit, 10)
           total == Cardinality(Listed(req))
           skip == (page - 1) * limit
           Position(i) == Cardinality({j \in Listed(req) : j <= i})
       IN  /\ resp.status = 200
           /\ resp.total_doctors = total
           /\ resp.total_pages * limit >= total
           /\ resp.total_pages = 0 \/ (resp.total_pages - 1) * limit < total
           /\ resp.total_pages >= 0
           /\ resp.has_next <=> page < resp.total_pages
           /\ Len(resp.doctors) = Minimum(limit, Maximum(0, total - skip))
           /\ \A n \in 1..Len(resp.doctors) :
                 /\ resp.doctors[n].id \in Listed(req)
                 /\ Position(resp.doctors[n].id) = skip + n

C8_Witness ==
    /\ req.op = "list" /\ resp # NoResp /\ resp.status = 200
    /\ resp.total_doctors = 3 /\ resp.total_pages = 2 /\ resp.current_page = 2
    /\ Len(resp.doctors) = 1 /\ ~resp.has_next

(***************************************************************************)
(* Properties of registration.                                             *)
(***************************************************************************)
RegisterStep == req.op = "register" /\ resp = NoResp /\ resp' # NoResp

\* a registration that passes the checks of presence, email format and password
WellFormedRegistration(r) ==
    /\ \A f \in {"email", "password", "user_type", "first_name", "last_name"} :
          ~Falsy(r.data[f])
    /\ validate_email(r.data.email.v)
    /\ validate_password(r.data.password.v)

UniqueEmails(accounts) ==
    \A i, j \in Ids(accounts) :
        i < j => Lower(accounts[i].email) # Lower(accounts[j].email)

\* C9: a well-formed registration whose email equals a registered email up to case
\* is answered 409 and writes nothing; no two accounts have the same lower-cased
\* email
C9_DuplicateEmailRejected ==
    [][RegisterStep
        => /\ (/\ WellFormedRegistration(req)
               /\ \E i \in Ids(users) :
                     Lower(users[i].email) = Lower(req.data.email.v))
                 => resp'.status = 409 /\ db' = db
           /\ UniqueEmails(users')]_vars

\* account i has the profile of its role
HasProfile(i) ==
    IF users[i].role = "doctor"
    THEN \E p \in Ids(doctor_profiles) : doctor_profiles[p].user_id = i
    ELSE \E p \in Ids(patient_profiles) : patient_profiles[p].user_id = i

\* C10: a registration answered 400, 409 or 500 leaves users, doctor_profiles and
\* patient_profiles unchanged, so every account has the profile of its role
C10_FailedRegistrationWritesNothing ==
    /\ [](\A i \in Ids(users) : HasProfile(i))
    /\ [][(RegisterStep /\ resp'.status \in {400, 409, 500}) => db' = db]_vars

(***************************************************************************)
(* The order of the checks of a booking.                                   *)
(***************************************************************************)
\* the checks of a booking, numbered as the contract numbers them, that request r fails
FailedChecks(r) ==
    LET d == r.data
        parsed == d.doctor_id.k = "oid" /\ d.appointment_date.k = "iso" /\ d.duration.k = "num"
    IN  {k \in 1..8 :
           \/ k = 1 /\ \E f \in {"doctor_id", "appointment_date", "duration",
                                 "consultation_type"} : Falsy(d[f])
           \/ k = 2 /\ d.doctor_id.k # "oid"
           \/ k = 3 /\ d.doctor_id.k = "oid"
                    /\ ~(/\ d.doctor_id.v \in Ids(users)
                         /\ users[d.doctor_id.v].role = "doctor"
                         /\ users[d.doctor_id.v].is_active)
           \/ k = 4 /\ d.appointment_date.k # "iso"
           \/ k = 5 /\ d.appointment_date.k = "iso" /\ StartOf(r) <= now
           \/ k = 6 /\ ~(d.duration.k = "num" /\ d.duration.v \in {15, 30, 45, 60})
           \/ k = 7 /\ ~(d.consultation_type.k = "str"
                         /\ d.consultation_type.v \in {"video", "audio", "chat"})
           \/ k = 8 /\ parsed
                    /\ \E i \in DoctorAppts(r) :
                          Overlap(appointments[i].appointment_date, appointments[i].end_time,
                                  StartOf(r), EndOf(r))}

FirstFailed(r) == CHOOSE k \in FailedChecks(r) : \A j \in FailedChecks(r) : k <= j

\* the error each check answers with
CheckError ==
    <<Response(400, "Missing required field"),
      Response(400, "Invalid doctor ID format"),
      Response(404, "Doctor not found or inactive"),
      Response(400, "Invalid appointment date format"),
      Response(400, "Appointment must be scheduled for future date"),
      Response(400, "Invalid duration"),
      Response(400, "Invalid consultation type"),
      Response(409, "Time slot no longer available")>>

\* C11: a patient's booking that fails one or several of the checks (1) fields
\* present, (2) doctor id parses, (3) active doctor account, (4) date parses,
\* (5) start in the future, (6) duration, (7) consultation type, (8) no conflict is
\* answered with the error of the first failing check in that order
C11_FirstFailureWins ==
    [][(BookStep /\ ByPatient(req) /\ FailedChecks(req) # {})
        => resp' = CheckError[FirstFailed(req)]]_vars

C11_Witness ==
    /\ req.op = "book" /\ resp # NoResp /\ ByPatient(req)
    /\ {3, 5, 6, 7} \subseteq FailedChecks(req)
    /\ FirstFailed(req) = 3
    /\ resp.status = 404

(***************************************************************************)
(* Two bookings in flight.  The handler reads the store with find_one and  *)
(* writes it with insert_one: the reads up to the conflict query are one   *)
(* step, the profile lookup and the insert another, and the steps of two   *)
(* requests interleave.  Here req and resp hold one entry per request; a   *)
(* request that passed the conflict query carries in `seen` the number of  *)
(* appointments that the query ran against.                                *)
(***************************************************************************)
Workers == {1, 2}

\* a store that registrations leave: a patient and doctors with their profiles
RaceKinds == [i \in 1..MaxUsers |-> IF i = 1 THEN "patient" ELSE "cardiology"]

InitRace ==
    /\ users = [i \in 1..MaxUsers |-> DirectoryUser(i, RaceKinds[i])]
    /\ doctor_profiles = DirectoryProfiles(RaceKinds, 1)
    /\ patient_profiles = DirectoryPatients(RaceKinds, 1)
    /\ appointments = <<>>
    /\ email_index \in BOOLEAN
    /\ now = 0
    /\ req = [p \in Workers |-> NoReq]
    /\ resp = [p \in Workers |-> NoResp]

RaceBookings ==
    {BookRequest(c, Oid(d), Iso(m, 0), Num(n), Str("video")) :
        c \in 1..MaxUsers, d \in 1..MaxUsers, m \in SlotTimes, n \in Durations}

ReceiveBooking(p) ==
    /\ req[p] = NoReq
    /\ \E r \in RaceBookings : req' = [req EXCEPT ![p] = r]
    /\ UNCHANGED <<db, email_index, now, resp>>

PassedCheck(r) == r.status = 0 /\ r # NoResp

\* role gate, validation and the conflict query of request p
CheckConflict(p) ==
    /\ req[p] # NoReq /\ resp[p] = NoResp
    /\ LET gate == role_required("patient", req[p].identity)
           invalid == BookValidation(req[p].data)
           doc == AppointmentDoc(req[p].identity, req[p].data)
       IN  resp' = [resp EXCEPT ![p] =
               IF gate # 0 THEN Response(gate, "role_required")
               ELSE IF invalid # NoResp THEN invalid
               ELSE IF HasConflict(appointments, doc.doctor_id,
                                   doc.appointment_date, doc.end_time)
               THEN Response(409, "Time slot no longer available")
               ELSE [status |-> 0, seen |-> Len(appointments)]]
    /\ UNCHANGED <<db, email_index, now, req>>

\* the profile lookup, the insert and the response of request p
InsertAppointment(p) ==
    /\ PassedCheck(resp[p])
    /\ appointments' = Append(appointments, AppointmentDoc(req[p].identity, req[p].data))
    /\ resp' = [resp EXCEPT ![p] = [status |-> 201,
                                    message |-> "Appointment booked successfully",
                                    id |-> Len(appointments) + 1,
                                    seen |-> resp[p].seen]]
    /\ UNCHANGED <<users, doctor_profiles, patient_profiles, email_index, now, req>>

NextRace ==
    \E p \in Workers :
        \/ ReceiveBooking(p)
        \/ CheckConflict(p)
        \/ InsertAppointment(p)

SpecRace == InitRace /\ [][NextRace]_vars

\* the appointments that requests p and q inserted overlap, for one doctor
BothBookedOverlapping(p, q) ==
    /\ resp[p].status = 201 /\ resp[q].status = 201
    /\ LET a == appointments[resp[p].id]
           b == appointments[resp[q].id]
       IN  /\ a.doctor_id = b.doctor_id
           /\ a.status = "confirmed" /\ b.status = "confirmed"
           /\ Overlap(a.appointment_date, a.end_time, b.appointment_date, b.end_time)

\* C12: two concurrent bookings of overlapping intervals for one doctor are both
\* persisted as confirmed only in the interleaving in which each request's conflict
\* query ran before the other request's insert (and that interleaving exists: the
\* state C12_Witness)
C12_OverlapOnlyByRace ==
    \A p, q \in Workers :
        (p # q /\ BothBookedOverlapping(p, q))
        => resp[p].seen < resp[q].id /\ resp[q].seen < resp[p].id

C12_Witness ==
    /\ BothBookedOverlapping(1, 2)
    /\ resp[1].seen = 0 /\ resp[2].seen = 0
    /\ Len(appointments) = 2
    /\ ~C1_NoOverlap

(***************************************************************************)
(* The four endpoints together: registrations (one of them of a doctor     *)
(* whose fee does not convert, which leaves an account without a profile), *)
(* logins, listings and bookings.                                           *)
(***************************************************************************)
ServiceRequests ==
    SetupRegistrations
    \cup
    {[op |-> "register",
      data |-> RegisterBody(Chars(EmailA), Chars(GoodPassword), Str("doctor"), Str("abc"), Absent)]}
    \cup
    {[op |-> "login", data |-> [email |-> Chars(e), password |-> Chars(GoodPassword)]] :
        e \in {EmailA, EmailB}}
    \cup
    {r \in ListRequests : r.args.page = Absent}
    \cup
    {r \in WellFormedBookings : r.identity # 0}

NextService ==
    \/ Receive(ServiceRequests)
    \/ register
    \/ login
    \/ get_available_doctors
    \/ book_appointment
    \/ Deliver
    \/ Tick

SpecService == Init /\ [][NextService]_vars

\* the fee of the profile of doctor d in the current state, 150.0 when d has none
ProfileFee(d) ==
    LET ps == {k \in Ids(doctor_profiles) : doctor_profiles[k].user_id = d}
    IN  IF ps = {} THEN DefaultFee
        ELSE doctor_profiles[CHOOSE k \in ps : \A j \in ps : k <= j].consultation_fee

AppointmentsKept ==
    /\ Len(appointments') >= Len(appointments)
    /\ \A i \in Ids(appointments) : appointments'[i] = appointments[i]

AppointmentAdded ==
    Len(appointments') > Len(appointments)
    => /\ Len(appointments') = Len(appointments) + 1
       /\ req.op = "book" /\ resp'.status = 201
       /\ LET a == appointments'[Len(appointments')]
          IN  /\ a.status = "confirmed"
              /\ a.end_time = a.appointment_date + a.duration
              /\ a.consultation_fee = ProfileFee(a.doctor_id)

\* C13: an appointment enters the store only by a booking answered 201, with status
\* confirmed, end_time = appointment_date + duration and the fee of the doctor's
\* profile at that moment (150.0 without a profile); no later register, login,
\* listing or booking request changes a field of it
C13_AppointmentSnapshot ==
    /\ [](\A i \in Ids(appointments) :
            /\ appointments[i].status = "confirmed"
            /\ appointments[i].end_time
                   = appointments[i].appointment_date + appointments[i].duration)
    /\ [][AppointmentsKept /\ AppointmentAdded]_vars

\* a booking took the fee 100 of the doctor's profile, and a login was served after it
C13_Witness ==
    /\ req.op = "login" /\ resp.status = 200
    /\ Len(appointments) >= 1
    /\ appointments[1].consultation_fee = 100
    /\ appointments[1].consultation_fee # DefaultFee
    /\ users[resp.access_token].last_login >= appointments[1].created_at

====
